---- MODULE Spec2Model ----
(***************************************************************************)
(* Model of the API Response Logger: the monitor's check / log / analyze   *)
(* pipeline (monitor.py) with its per-endpoint change-detection state.     *)
(*                                                                         *)
(* Conventions.  A Python Optional value is a sequence of length at most   *)
(* one: None is << >> and a present value v is << v >>.  A text (error     *)
(* message) is the sequence of the string fragments an f-string joins.     *)
(* An endpoint name is the sequence of its characters.  Times are integer  *)
(* microseconds (elapsed) and hundredths of a millisecond (response_time,  *)
(* which the code rounds to 2 decimals).                                   *)
(***************************************************************************)
EXTENDS Integers, Sequences, FiniteSets, TLC

VARIABLES
    apis,        \* config['apis']: the configured endpoints, in order
    api_states,  \* APIMonitor.api_states: name -> [last_hash |-> fingerprint]
    logs,        \* the files of logs_dir: file name -> sequence of lines
    pc,          \* position of the monitoring loop
    idx,         \* index in apis of the endpoint run_checks is at
    result,      \* the Check Result in flight (Optional)
    alerts,      \* the alert() calls of the latest analyze_result, in order
    now,         \* the clock datetime.now() reads: probes started so far
    probes,      \* history of the Check Results check_api has returned
    outcome,     \* what requests.request did in the latest check_api (Optional)
    running,     \* FALSE once KeyboardInterrupt has stopped start()
    calls,       \* history of detect_changes calls: name, hash, returned value
    nanalyze,    \* number of analyze_result calls made directly by a caller
    analyzer,    \* LogAnalyzer: what the latest analyze_api call did
    reader       \* a load_logs call in progress, line by line

vars == <<apis, api_states, logs, pc, idx, result, alerts, now, probes,
          outcome, running, calls, nanalyze, analyzer, reader>>

----------------------------------------------------------------------------
(* Bounds *)

MaxProbes == 3
MaxCalls == 4
MaxAnalyze == 2
MaxLines == 3
LongLen == 20001
MaxAppends == 2

----------------------------------------------------------------------------
(* Optional values and Python truthiness *)

None == << >>

Some(v) == << v >>

\* truthiness of an Optional[str]: None and "" are falsy
TruthyStr(o) == o /= None /\ o[1] /= ""

\* truthiness of an Optional number: None and 0 are falsy
TruthyNum(o) == o /= None /\ o[1] /= 0

----------------------------------------------------------------------------
(* Fingerprints *)

Bodies == {"{}", "[]"}

\* hashlib.md5(response_data.encode()).hexdigest()
get_response_hash(response_data) ==
    CASE response_data = "{}" -> "99914b932bd37a50b983c5e7c90ae93b"
      [] response_data = "[]" -> "d751713988987e9331980363e24189ce"
      [] response_data = ""   -> "d41d8cd98f00b204e9800998ecf8427e"

Hashes == {get_response_hash(b) : b \in Bodies}

OptHashes == {None} \cup {Some(h) : h \in Hashes}

----------------------------------------------------------------------------
(* Endpoint configuration *)

NameAB == <<"A", " ", "b">>
NameUnder == <<"a", "_", "b">>
NameC == <<"c">>

\* api_config.get('expected_status', 200)
DefaultExpectedStatus == 200

EpAB == [name |-> NameAB, url |-> "https://ab.example/health",
         expected_status |-> DefaultExpectedStatus,
         check_response_structure |-> TRUE]

EpUnder == [name |-> NameUnder, url |-> "https://under.example/",
            expected_status |-> DefaultExpectedStatus,
            check_response_structure |-> TRUE]

EpC == [name |-> NameC, url |-> "https://c.example/maintenance",
        expected_status |-> 503,
        check_response_structure |-> FALSE]

\* the lists config['apis'] is drawn from
ConfigChoices == {<< >>, <<EpAB, EpUnder>>, <<EpAB, EpC>>}

----------------------------------------------------------------------------
(* Change Detector: APIMonitor.detect_changes *)

\* dict assignment  d[k] = v
DictSet(d, k, v) == [x \in (DOMAIN d) \cup {k} |-> IF x = k THEN v ELSE d[x]]

EmptyDict == [x \in {} |-> None]

\* the guard `current_hash is None`
HashAbsentMutNever(current_hash) == FALSE

HashAbsent(current_hash) == current_hash = None

\* the test `last_hash and last_hash != current_hash`
HashChangedMutNoCompare(last_hash, current_hash) == TruthyStr(last_hash)

HashChangedMutInverted(last_hash, current_hash) ==
    TruthyStr(last_hash) /\ last_hash = current_hash

HashChanged(last_hash, current_hash) ==
    TruthyStr(last_hash) /\ last_hash /= current_hash

\* api_states[api_name]['last_hash'] = current_hash on the change path
StoreOnChangeMutKeepOld(states, api_name, current_hash) == states

StoreOnChange(states, api_name, current_hash) ==
    DictSet(states, api_name, [last_hash |-> current_hash])

\* api_states[api_name]['last_hash'] = current_hash on the no-change path
StoreOnNoChange(states, api_name, current_hash) ==
    DictSet(states, api_name, [last_hash |-> current_hash])

\* detect_changes(api_name, current_hash): returned value and the map after
detect_changes(states, api_name, current_hash) ==
    IF HashAbsent(current_hash)
    THEN [ret |-> FALSE, api_states |-> states]
    ELSE IF api_name \notin DOMAIN states
    THEN [ret |-> FALSE,
          api_states |-> DictSet(states, api_name, [last_hash |-> current_hash])]
    ELSE IF HashChanged(states[api_name].last_hash, current_hash)
    THEN [ret |-> TRUE,
          api_states |-> StoreOnChange(states, api_name, current_hash)]
    ELSE [ret |-> FALSE,
          api_states |-> StoreOnNoChange(states, api_name, current_hash)]

CallRecord(api_name, current_hash, ret) ==
    [name |-> api_name, hash |-> current_hash, ret |-> ret]

----------------------------------------------------------------------------
(* Probe Executor: APIMonitor.check_api *)

\* elapsed wall-clock times of a request, in microseconds
Elapsed == {4, 2000004, 2000006, 5000006}

StatusCodes == {200, 503}

\* str(e) of an exception that is neither Timeout nor ConnectionError
Descriptions == {"", "Exceeded 30 redirects."}

\* what requests.request does: returns a response or raises
Outcomes ==
    [kind : {"response"}, status_code : StatusCodes, elapsed : Elapsed,
     text : Bodies, description : {""}]
    \cup
    [kind : {"timeout", "connection"}, status_code : {0}, elapsed : {0},
     text : {""}, description : {""}]
    \cup
    [kind : {"other"}, status_code : {0}, elapsed : {0},
     text : {""}, description : Descriptions]

\* round(response_time, 2) of elapsed * 1000 ms, as hundredths of a
\* millisecond: microseconds / 10, ties to even
Round2(us) ==
    LET q == us \div 10
        r == us % 10
    IN IF r > 5 \/ (r = 5 /\ q % 2 = 1) THEN q + 1 ELSE q

DigitChar(d) ==
    CASE d = 0 -> "0" [] d = 1 -> "1" [] d = 2 -> "2" [] d = 3 -> "3"
      [] d = 4 -> "4" [] d = 5 -> "5" [] d = 6 -> "6" [] d = 7 -> "7"
      [] d = 8 -> "8" [] d = 9 -> "9"

RECURSIVE IntToText(_)
\* str(n) of a non-negative integer, one fragment per digit
IntToText(n) ==
    IF n < 10 THEN <<DigitChar(n)>>
    ELSE Append(IntToText(n \div 10), DigitChar(n % 10))

\* a str as a text: the empty string has no fragment
StrText(str) == IF str = "" THEN << >> ELSE <<str>>

IsEmptyText(t) == \A i \in DOMAIN t : t[i] = ""

\* the comparison response.status_code == expected_status
IsExpectedMutDefaultOnly(status_code, expected_status) ==
    status_code = DefaultExpectedStatus

IsExpected(status_code, expected_status) == status_code = expected_status

\* the result dict check_api starts from
InitialResult(api_config, timestamp) ==
    [name |-> api_config.name,
     url |-> api_config.url,
     timestamp |-> timestamp,
     status |-> "unknown",
     response_time |-> None,
     status_code |-> None,
     error |-> None,
     response_hash |-> None]

\* the body of the try block, for a received response
OnResponseMutNoElse(api_config, r0, got) ==
    LET r1 == [r0 EXCEPT !.response_time = Some(Round2(got.elapsed)),
                         !.status_code = Some(got.status_code)]
        r2 == IF IsExpected(got.status_code, api_config.expected_status)
              THEN [r1 EXCEPT !.status = "up"]
              ELSE r1
    IN IF api_config.check_response_structure
       THEN [r2 EXCEPT !.response_hash = Some(get_response_hash(got.text))]
       ELSE r2

OnResponse(api_config, r0, got) ==
    LET r1 == [r0 EXCEPT !.response_time = Some(Round2(got.elapsed)),
                         !.status_code = Some(got.status_code)]
        r2 == IF IsExpected(got.status_code, api_config.expected_status)
              THEN [r1 EXCEPT !.status = "up"]
              ELSE [r1 EXCEPT !.status = "error",
                              !.error = Some(<<"Unexpected status code: ">>
                                             \o IntToText(got.status_code))]
    IN IF api_config.check_response_structure
       THEN [r2 EXCEPT !.response_hash = Some(get_response_hash(got.text))]
       ELSE r2

\* check_api(api_config), given what the request did and the clock reading
check_api(api_config, got, timestamp) ==
    LET r0 == InitialResult(api_config, timestamp)
    IN CASE got.kind = "response" -> OnResponse(api_config, r0, got)
         [] got.kind = "timeout" ->
              [r0 EXCEPT !.status = "down",
                         !.error = Some(<<"Request timeout">>)]
         [] got.kind = "connection" ->
              [r0 EXCEPT !.status = "down",
                         !.error = Some(<<"Connection error">>)]
         [] got.kind = "other" ->
              [r0 EXCEPT !.status = "error",
                         !.error = Some(StrText(got.description))]

----------------------------------------------------------------------------
(* Result Logger: APIMonitor.log_result *)

\* str.replace(' ', '_') on one character
ReplaceSpace(c) == IF c = " " THEN "_" ELSE c

\* str.lower() on one character of the names in use
LowerChar(c) ==
    CASE c = "A" -> "a" [] c = "B" -> "b" [] c = "C" -> "c" [] OTHER -> c

\* f"{result['name'].replace(' ', '_').lower()}.log"
LogFileName(name) ==
    [i \in DOMAIN name |-> LowerChar(ReplaceSpace(name[i]))] \o <<".log">>

\* the persisted log of an endpoint: the lines of the file its name maps to
EndpointLog(files, name) ==
    IF LogFileName(name) \in DOMAIN files THEN files[LogFileName(name)]
    ELSE << >>

\* json.dumps(result) + '\n'
LogLine(r) == [kind |-> "json", value |-> r, newline |-> TRUE]

\* open(log_file, 'a') and write one line
log_resultMutTruncate(files, r) ==
    DictSet(files, LogFileName(r.name), <<LogLine(r)>>)

log_resultMutNoWrite(files, r) == files

log_result(files, r) ==
    LET log_file == LogFileName(r.name)
        old == IF log_file \in DOMAIN files THEN files[log_file] ELSE << >>
    IN DictSet(files, log_file, Append(old, LogLine(r)))

----------------------------------------------------------------------------
(* Alert Evaluator: APIMonitor.analyze_result *)

\* thresholds.get('response_time_critical', 5000), milliseconds
response_time_critical == 5000

\* thresholds.get('response_time_warning', 2000), milliseconds
response_time_warning == 2000

\* a threshold in the unit of response_time (hundredths of a millisecond)
Centi(ms) == ms * 100

\* one self.alert(message, level) call
Alert(level, template, r) ==
    [level |-> level, template |-> template, name |-> r.name,
     error |-> IF template \in {"{name} is DOWN! Error: {error}",
                                "{name} returned an error: {error}"}
               THEN r.error ELSE None,
     response_time |-> IF template \in {"{name} is VERY SLOW! Response time: {rt}ms",
                                        "{name} is slow. Response time: {rt}ms",
                                        "{name} is healthy. Response time: {rt}ms"}
                       THEN r.response_time ELSE None]

\* the guard `if response_time:` of the latency tiers
HasResponseTime(response_time) == TruthyNum(response_time)

\* the tier tests `response_time > critical_threshold`, `> warning_threshold`
Exceeds(response_time, threshold_ms) == response_time[1] > Centi(threshold_ms)

\* the latency-tier alerts of an `up` result
LatencyAlerts(r) ==
    IF HasResponseTime(r.response_time)
    THEN IF Exceeds(r.response_time, response_time_critical)
         THEN <<Alert("critical", "{name} is VERY SLOW! Response time: {rt}ms", r)>>
         ELSE IF Exceeds(r.response_time, response_time_warning)
         THEN <<Alert("warning", "{name} is slow. Response time: {rt}ms", r)>>
         ELSE <<Alert("info", "{name} is healthy. Response time: {rt}ms", r)>>
    ELSE << >>

\* the branch `elif status == 'up'` is the only one that looks at changes
ChecksStructureMutAnyStatus(status) == status \in {"up", "down", "error"}

ChecksStructureMutNever(status) == FALSE

ChecksStructure(status) == status = "up"

\* `if response_hash and self.detect_changes(name, response_hash)`:
\* detect_changes is called only for a truthy hash
StructureCheck(states, r) ==
    IF ChecksStructure(r.status) /\ TruthyStr(r.response_hash)
    THEN LET d == detect_changes(states, r.name, r.response_hash)
         IN [called |-> TRUE, ret |-> d.ret, api_states |-> d.api_states]
    ELSE [called |-> FALSE, ret |-> FALSE, api_states |-> states]

\* the alerts of the down and error branches
DownAlerts(r) == <<Alert("critical", "{name} is DOWN! Error: {error}", r)>>

ErrorAlerts(r) == <<Alert("warning", "{name} returned an error: {error}", r)>>

\* analyze_result(result): the alert() calls in order, the fingerprint map
\* after, and whether detect_changes was called and what it returned
analyze_result(states, r) ==
    LET c == StructureCheck(states, r)
        first == CASE r.status = "down" -> DownAlerts(r)
                   [] r.status = "error" -> ErrorAlerts(r)
                   [] r.status = "up" -> LatencyAlerts(r)
                   [] OTHER -> << >>
        second == IF c.ret
                  THEN <<Alert("warning", "{name} response structure has CHANGED!", r)>>
                  ELSE << >>
    IN [alerts |-> first \o second, api_states |-> c.api_states,
        called |-> c.called, ret |-> c.ret]

----------------------------------------------------------------------------
(* Log Analyzer: analyzer.py *)

\* Lines of a log file.  Besides the lines log_result writes (kind "json",
\* the JSON text of a Check Result), a file can hold:
\*   "prefix"       the first part of a record's JSON text (a write under way)
\*   "garbage"      text that is not JSON
\*   "scalar"       a JSON text that is not an object, such as 42
\*   "undecodable"  bytes that are no text in the file's encoding
\* newline is FALSE for a final line whose '\n' is not written yet.
BlankRecord ==
    [name |-> << >>, url |-> "", timestamp |-> 0, status |-> "unknown",
     response_time |-> None, status_code |-> None, error |-> None,
     response_hash |-> None]

GarbageLine == [kind |-> "garbage", value |-> BlankRecord, newline |-> TRUE]

ScalarLine == [kind |-> "scalar", value |-> BlankRecord, newline |-> TRUE]

UndecodableLine ==
    [kind |-> "undecodable", value |-> BlankRecord, newline |-> TRUE]

\* json.loads(line.strip()): the parsed value, or JSONDecodeError
json_loads(line) ==
    CASE line.kind = "json" ->
           [ok |-> TRUE, value |-> [object |-> TRUE, fields |-> line.value]]
      [] line.kind = "scalar" ->
           [ok |-> TRUE, value |-> [object |-> FALSE, fields |-> BlankRecord]]
      [] OTHER ->
           [ok |-> FALSE, value |-> [object |-> FALSE, fields |-> BlankRecord]]

\* the handler `except json.JSONDecodeError: continue`
ParsesMutKeepAll(line) == line.kind /= "undecodable"

Parses(line) == json_loads(line).ok

\* decoding the file while iterating it: UnicodeDecodeError is not caught
Decodable(lines) == \A i \in DOMAIN lines : lines[i].kind /= "undecodable"

\* load_logs(api_name): the parsed lines in file order, or the exception
load_logsMutNoExists(files, api_name) ==
    LET log_file == LogFileName(api_name)
    IN IF log_file \notin DOMAIN files \/ ~Decodable(files[log_file])
       THEN [raised |-> TRUE, logs |-> << >>]
       ELSE LET kept == SelectSeq(files[log_file], Parses)
            IN [raised |-> FALSE,
                logs |-> [i \in DOMAIN kept |-> json_loads(kept[i]).value]]

load_logs(files, api_name) ==
    LET log_file == LogFileName(api_name)
    IN IF log_file \notin DOMAIN files
       THEN [raised |-> FALSE, logs |-> << >>]
       ELSE IF ~Decodable(files[log_file])
       THEN [raised |-> TRUE, logs |-> << >>]
       ELSE LET kept == SelectSeq(files[log_file], Parses)
            IN [raised |-> FALSE,
                logs |-> [i \in DOMAIN kept |-> json_loads(kept[i]).value]]

\* round(num / den, 0) as Python rounds: to nearest, ties to even
RoundHalfEven(num, den) ==
    LET q == num \div den
        r == num % den
    IN IF 2 * r > den \/ (2 * r = den /\ q % 2 = 1) THEN q + 1 ELSE q

\* log['status'] and log.get(...) need a dict
AllObjects(entries) == \A i \in DOMAIN entries : entries[i].object

CountStatus(entries, status) ==
    Cardinality({i \in DOMAIN entries : entries[i].fields.status = status})

\* sum(1 for log in logs if log['status'] == 'down')
DownCountMutFailed(entries) ==
    Cardinality({i \in DOMAIN entries :
                   entries[i].fields.status \in {"down", "error"}})

DownCount(entries) == CountStatus(entries, "down")

\* calculate_uptime(logs); uptime is in hundredths of a percent (the code
\* rounds the percentage to 2 decimals)
calculate_uptime(entries) ==
    IF entries = << >>
    THEN [raised |-> FALSE, uptime |-> 0, total_checks |-> 0, up_count |-> 0,
          down_count |-> 0]
    ELSE IF ~AllObjects(entries)
    THEN [raised |-> TRUE, uptime |-> 0, total_checks |-> 0, up_count |-> 0,
          down_count |-> 0]
    ELSE LET total == Len(entries)
             up_count == CountStatus(entries, "up")
         IN [raised |-> FALSE,
             uptime |-> RoundHalfEven(up_count * 10000, total),
             total_checks |-> total,
             up_count |-> up_count,
             down_count |-> DownCount(entries)]

RECURSIVE SumTimes(_, _)
SumTimes(entries, S) ==
    IF S = {} THEN 0
    ELSE LET i == CHOOSE x \in S : TRUE
         IN entries[i].fields.response_time[1] + SumTimes(entries, S \ {i})

\* calculate_avg_response_time(logs), in hundredths of a millisecond
calculate_avg_response_time(entries) ==
    IF ~AllObjects(entries) THEN [raised |-> TRUE, avg |-> 0]
    ELSE LET timed == {i \in DOMAIN entries :
                         TruthyNum(entries[i].fields.response_time)}
         IN IF timed = {} THEN [raised |-> FALSE, avg |-> 0]
            ELSE [raised |-> FALSE,
                  avg |-> RoundHalfEven(SumTimes(entries, timed),
                                        Cardinality(timed))]

IsIncident(entry) == entry.fields.status \in {"down", "error"}

\* get_incidents(logs): the key 'error' is always present, so the default
\* of log.get('error', 'Unknown error') is not used
get_incidents(entries) ==
    IF ~AllObjects(entries) THEN [raised |-> TRUE, incidents |-> << >>]
    ELSE LET sel == SelectSeq(entries, IsIncident)
         IN [raised |-> FALSE,
             incidents |-> [i \in DOMAIN sel |->
                              [timestamp |-> sel[i].fields.timestamp,
                               status |-> sel[i].fields.status,
                               error |-> sel[i].fields.error]]]

\* what analyze_api leaves behind: whether an exception escaped, what it
\* printed ("no_logs", "report" or nothing), and the figures it printed
AnalyzerDone(api_name, raised, printed, loaded, stats, avg, incidents) ==
    [pc |-> "done", name |-> api_name, raised |-> raised,
     printed |-> printed, loaded |-> loaded, uptime_stats |-> stats,
     avg_response_time |-> avg, incidents |-> incidents]

\* analyze_api(api_name)
analyze_api(files, api_name) ==
    LET l == load_logs(files, api_name)
        u == calculate_uptime(l.logs)
        a == calculate_avg_response_time(l.logs)
        n == get_incidents(l.logs)
    IN IF l.raised
       THEN AnalyzerDone(api_name, TRUE, "nothing", << >>, None, None, None)
       ELSE IF l.logs = << >>
       THEN AnalyzerDone(api_name, FALSE, "no_logs", l.logs, None, None, None)
       ELSE IF u.raised \/ a.raised \/ n.raised
       THEN AnalyzerDone(api_name, TRUE, "nothing", l.logs, None, None, None)
       ELSE AnalyzerDone(api_name, FALSE, "report", l.logs,
                         Some([uptime |-> u.uptime,
                               total_checks |-> u.total_checks,
                               up_count |-> u.up_count,
                               down_count |-> u.down_count]),
                         Some(a.avg), Some(n.incidents))

----------------------------------------------------------------------------
(* Initial state: after APIMonitor.__init__ *)

NoAlerts == << >>

\* no LogAnalyzer call has been made
Idle == [pc |-> "idle"]

Init ==
    /\ apis \in ConfigChoices
    /\ api_states = EmptyDict
    /\ logs = EmptyDict
    /\ pc = "begin"
    /\ idx = 1
    /\ result = None
    /\ alerts = NoAlerts
    /\ now = 0
    /\ probes = << >>
    /\ outcome = None
    /\ running = TRUE
    /\ calls = << >>
    /\ nanalyze = 0
    /\ analyzer = Idle
    /\ reader = Idle

----------------------------------------------------------------------------
(* A caller invokes detect_changes directly *)

DetectChangesCall(api_name, current_hash) ==
    /\ Len(calls) < MaxCalls
    /\ LET d == detect_changes(api_states, api_name, current_hash)
       IN /\ api_states' = d.api_states
          /\ calls' = Append(calls, CallRecord(api_name, current_hash, d.ret))
    /\ UNCHANGED <<apis, logs, pc, idx, result, alerts, now, probes, outcome,
                   running, nanalyze,
                   analyzer, reader>>

NextDetect ==
    \E api_name \in {NameAB, NameC}, current_hash \in OptHashes :
        DetectChangesCall(api_name, current_hash)

SpecDetect == Init /\ [][NextDetect]_vars

----------------------------------------------------------------------------
(* The monitoring loop: APIMonitor.start and run_checks *)

\* run_checks is entered: `if not apis: return`
RunChecksBegin ==
    /\ running
    /\ pc = "begin"
    /\ IF apis = << >>
       THEN pc' = "sleep" /\ idx' = idx
       ELSE pc' = "check" /\ idx' = 1
    /\ UNCHANGED <<apis, api_states, logs, result, alerts, now, probes, outcome,
                   running, calls, nanalyze,
                   analyzer, reader>>

\* result = self.check_api(api_config)
CheckStep ==
    /\ running
    /\ pc = "check"
    /\ now < MaxProbes
    /\ \E o \in Outcomes :
         LET r == check_api(apis[idx], o, now + 1)
         IN /\ result' = Some(r)
            /\ probes' = Append(probes, r)
            /\ outcome' = Some(o)
    /\ now' = now + 1
    /\ pc' = "log"
    /\ UNCHANGED <<apis, api_states, logs, idx, alerts, running, calls,
                   nanalyze,
                   analyzer, reader>>

\* self.log_result(result)
LogStep ==
    /\ running
    /\ pc = "log"
    /\ logs' = log_result(logs, result[1])
    /\ pc' = "analyze"
    /\ UNCHANGED <<apis, api_states, idx, result, alerts, now, probes, outcome,
                   running, calls, nanalyze,
                   analyzer, reader>>

\* what an analyze_result call does to the monitor
Analyzed(r) ==
    LET a == analyze_result(api_states, r)
    IN /\ alerts' = a.alerts
       /\ api_states' = a.api_states
       /\ calls' = IF a.called
                   THEN Append(calls, CallRecord(r.name, r.response_hash, a.ret))
                   ELSE calls

\* self.analyze_result(result), then the next endpoint or the end of the
\* cycle
AnalyzeStep ==
    /\ running
    /\ pc = "analyze"
    /\ Analyzed(result[1])
    /\ IF idx < Len(apis)
       THEN pc' = "check" /\ idx' = idx + 1
       ELSE pc' = "sleep" /\ idx' = idx
    /\ UNCHANGED <<apis, logs, result, now, probes, outcome, running, nanalyze,
                   analyzer, reader>>

\* time.sleep(check_interval) returns and the loop calls run_checks again
Sleep ==
    /\ running
    /\ pc = "sleep"
    /\ apis /= << >>
    /\ pc' = "begin"
    /\ UNCHANGED <<apis, api_states, logs, idx, result, alerts, now, probes,
                   outcome, running, calls, nanalyze,
                   analyzer, reader>>

\* KeyboardInterrupt: start() leaves its loop, wherever it is
Interrupt ==
    /\ running
    /\ running' = FALSE
    /\ UNCHANGED <<apis, api_states, logs, pc, idx, result, alerts, now,
                   probes, outcome, calls, nanalyze,
                   analyzer, reader>>

Next ==
    \/ RunChecksBegin
    \/ CheckStep
    \/ LogStep
    \/ AnalyzeStep
    \/ Sleep
    \/ Interrupt

Spec == Init /\ [][Next]_vars

----------------------------------------------------------------------------
(* A caller invokes analyze_result directly, on any Check Result *)

ResponseTimes == {None} \cup {Some(t) : t \in {0, 100, 200000, 200001, 500000, 500001}}

CheckResults ==
    [name : {NameAB, NameC},
     url : {"https://ab.example/health"},
     timestamp : {0},
     status : {"up", "down", "error", "unknown"},
     response_time : ResponseTimes,
     status_code : {None},
     error : {None, Some(<<"Connection error">>)},
     response_hash : OptHashes]

AnalyzeResultCall(r) ==
    /\ nanalyze < MaxAnalyze
    /\ nanalyze' = nanalyze + 1
    /\ result' = Some(r)
    /\ Analyzed(r)
    /\ UNCHANGED <<apis, logs, pc, idx, now, probes, outcome, running,
                   analyzer, reader>>

NextAnalyze == \E r \in CheckResults : AnalyzeResultCall(r)

SpecAnalyze == Init /\ [][NextAnalyze]_vars

----------------------------------------------------------------------------
(* The Log Analyzer runs on a log directory it finds *)

\* what requests.request did for the records of the sample lines
SampleOutcomes ==
    {[kind |-> "response", status_code |-> 200, elapsed |-> 4,
      text |-> "{}", description |-> ""],
     [kind |-> "response", status_code |-> 200, elapsed |-> 2000006,
      text |-> "{}", description |-> ""],
     [kind |-> "response", status_code |-> 503, elapsed |-> 5000006,
      text |-> "[]", description |-> ""],
     [kind |-> "timeout", status_code |-> 0, elapsed |-> 0,
      text |-> "", description |-> ""]}

\* lines log_result writes for endpoint "A b"
RecordLines == {LogLine(check_api(EpAB, o, 1)) : o \in SampleOutcomes}

SampleLines == RecordLines \cup {GarbageLine, ScalarLine, UndecodableLine}

ShortLogs == UNION {[1..n -> SampleLines] : n \in 0..MaxLines}

UpLine == LogLine(check_api(EpAB, [kind |-> "response", status_code |-> 200,
                                   elapsed |-> 4, text |-> "{}",
                                   description |-> ""], 1))

DownLine == LogLine(check_api(EpAB, [kind |-> "timeout", status_code |-> 0,
                                     elapsed |-> 0, text |-> "",
                                     description |-> ""], 1))

\* 8 `up` records followed by 2 `down` records
Scenario1Log == [i \in 1..10 |-> IF i <= 8 THEN UpLine ELSE DownLine]

\* logs of many checks with a single record of the other status
LongLogOneDown == [i \in 1..LongLen |-> IF i = 1 THEN DownLine ELSE UpLine]

LongLogOneUp == [i \in 1..LongLen |-> IF i = 1 THEN UpLine ELSE DownLine]

LogContents == ShortLogs \cup {Scenario1Log, LongLogOneDown, LongLogOneUp}

\* the log directory: without files, or with the file of endpoint "A b"
InitAnalyzer ==
    /\ apis = <<EpAB, EpC>>
    /\ api_states = EmptyDict
    /\ logs \in {EmptyDict}
                \cup {DictSet(EmptyDict, LogFileName(NameAB), lines) :
                        lines \in LogContents}
    /\ pc = "begin"
    /\ idx = 1
    /\ result = None
    /\ alerts = NoAlerts
    /\ now = 0
    /\ probes = << >>
    /\ outcome = None
    /\ running = TRUE
    /\ calls = << >>
    /\ nanalyze = 0
    /\ analyzer = Idle
    /\ reader = Idle

\* analyzer.analyze_api(api_name)
AnalyzeApi(api_name) ==
    /\ analyzer.pc = "idle"
    /\ analyzer' = analyze_api(logs, api_name)
    /\ UNCHANGED <<apis, api_states, logs, pc, idx, result, alerts, now,
                   probes, outcome, running, calls, nanalyze, reader>>

NextAnalyzer == \E api_name \in {NameAB, NameC} : AnalyzeApi(api_name)

SpecAnalyzer == InitAnalyzer /\ [][NextAnalyzer]_vars

----------------------------------------------------------------------------
(* The Log Analyzer reads a log while the Result Logger appends to it.     *)
(* No lock is taken: the line being written becomes visible to the reader  *)
(* in parts, and the reader takes what is in the file each time it asks    *)
(* for the next line.                                                      *)

\* how much of the line of record r is in the file
PartialLine(r, part) ==
    IF part = "prefix"
    THEN [kind |-> "prefix", value |-> r, newline |-> FALSE]
    ELSE [kind |-> "json", value |-> r, newline |-> FALSE]

\* "complete", or which part of the final line is written
Stage(line) ==
    IF line.newline THEN "complete"
    ELSE IF line.kind = "prefix" THEN "prefix" ELSE "nonewline"

CompleteLines(lines) == {i \in DOMAIN lines : lines[i].newline}

ReplaceLast(lines, line) == [lines EXCEPT ![Len(lines)] = line]

InitConcurrent ==
    /\ apis = <<EpAB, EpC>>
    /\ api_states = EmptyDict
    /\ logs = EmptyDict
    /\ pc = "begin"
    /\ idx = 1
    /\ result = None
    /\ alerts = NoAlerts
    /\ now = 0
    /\ probes = << >>
    /\ outcome = None
    /\ running = TRUE
    /\ calls = << >>
    /\ nanalyze = 0
    /\ analyzer = Idle
    /\ reader = Idle

\* log_result(r): the whole line reaches the file at once
WriteWhole ==
    /\ pc = "begin"
    /\ now < MaxAppends
    /\ \E o \in SampleOutcomes :
         LET r == check_api(EpAB, o, now + 1)
         IN /\ result' = Some(r)
            /\ logs' = log_result(logs, r)
    /\ now' = now + 1
    /\ UNCHANGED <<apis, api_states, pc, idx, alerts, probes, outcome,
                   running, calls, nanalyze, analyzer, reader>>

\* log_result(r): only a first part of the line has reached the file
WriteBegin ==
    /\ pc = "begin"
    /\ now < MaxAppends
    /\ \E o \in SampleOutcomes, part \in {"prefix", "nonewline"} :
         LET r == check_api(EpAB, o, now + 1)
         IN /\ result' = Some(r)
            /\ logs' = DictSet(logs, LogFileName(r.name),
                               Append(EndpointLog(logs, r.name),
                                      PartialLine(r, part)))
    /\ now' = now + 1
    /\ pc' = "writing"
    /\ UNCHANGED <<apis, api_states, idx, alerts, probes, outcome,
                   running, calls, nanalyze, analyzer, reader>>

\* more of the line reaches the file: all of it but the '\n'
WriteMore ==
    /\ pc = "writing"
    /\ LET f == LogFileName(result[1].name)
       IN /\ Stage(logs[f][Len(logs[f])]) = "prefix"
          /\ logs' = DictSet(logs, f,
                             ReplaceLast(logs[f],
                                         PartialLine(result[1], "nonewline")))
    /\ UNCHANGED <<apis, api_states, pc, idx, result, alerts, now, probes,
                   outcome, running, calls, nanalyze, analyzer, reader>>

\* the rest of the line reaches the file and log_result returns
WriteEnd ==
    /\ pc = "writing"
    /\ LET f == LogFileName(result[1].name)
       IN logs' = DictSet(logs, f, ReplaceLast(logs[f], LogLine(result[1])))
    /\ pc' = "begin"
    /\ UNCHANGED <<apis, api_states, idx, result, alerts, now, probes,
                   outcome, running, calls, nanalyze, analyzer, reader>>

\* the state of a load_logs call: `pos` lines are read to their end, `part`
\* says how much of the next line has been read already, `logs` is the list
\* built so far; complete_at_start, counted_lines and the two flags record
\* the history of the call
Reading(api_name, pos, part, entries, started, counted, skipped, state) ==
    [pc |-> state, name |-> api_name, pos |-> pos, part |-> part,
     logs |-> entries, raised |-> FALSE, complete_at_start |-> started,
     counted_lines |-> << >>,
     partial_counted |-> counted, partial_skipped |-> skipped]

\* load_logs(api_name) begins: log_file.exists(), open(log_file, 'r')
ReadOpen(api_name) ==
    /\ reader.pc = "idle"
    /\ LET lines == EndpointLog(logs, api_name)
           started == Cardinality(CompleteLines(lines))
       IN reader' = Reading(api_name, 0, "none", << >>, started, FALSE, FALSE,
                            IF LogFileName(api_name) \in DOMAIN logs
                            THEN "reading" ELSE "done")
    /\ UNCHANGED <<apis, api_states, logs, pc, idx, result, alerts, now,
                   probes, outcome, running, calls, nanalyze, analyzer>>

\* one round of `for line in f`: the next piece of text up to a '\n' or to
\* the end of the file is parsed, or the end of the file ends the loop
ReadNext ==
    /\ reader.pc = "reading"
    /\ LET lines == logs[LogFileName(reader.name)]
       IN IF reader.pos = Len(lines)
          THEN reader' = [reader EXCEPT !.pc = "done"]
          ELSE LET line == lines[reader.pos + 1]
                   whole == reader.part = "none"
                   kept == whole /\ Parses(line)
               IN IF Stage(line) = reader.part
                  THEN reader' = [reader EXCEPT !.pc = "done"]
                  ELSE reader' =
                         [reader EXCEPT
                            !.pos = IF line.newline THEN @ + 1 ELSE @,
                            !.part = IF line.newline THEN "none"
                                     ELSE Stage(line),
                            !.raised = line.kind = "undecodable",
                            !.pc = IF line.kind = "undecodable" THEN "done"
                                   ELSE @,
                            !.logs = IF kept
                                     THEN Append(@, json_loads(line).value)
                                     ELSE @,
                            !.counted_lines = IF kept
                                              THEN Append(@, reader.pos + 1)
                                              ELSE @,
                            !.partial_counted = @ \/ (kept /\ ~line.newline),
                            !.partial_skipped = @ \/ (~kept /\ ~line.newline)]
    /\ UNCHANGED <<apis, api_states, logs, pc, idx, result, alerts, now,
                   probes, outcome, running, calls, nanalyze, analyzer>>

NextConcurrent ==
    \/ WriteWhole
    \/ WriteBegin
    \/ WriteMore
    \/ WriteEnd
    \/ \E api_name \in {NameAB, NameC} : ReadOpen(api_name)
    \/ ReadNext

SpecConcurrent == InitConcurrent /\ [][NextConcurrent]_vars

----------------------------------------------------------------------------
(* Properties of the Change Detector *)

LastCall == calls[Len(calls)]

\* the calls before the i-th one that are for the same endpoint and carry a
\* fingerprint
EarlierFingerprinted(i) ==
    {j \in 1..(i - 1) : calls[j].name = calls[i].name /\ calls[j].hash /= None}

MaxOf(S) == CHOOSE m \in S : \A k \in S : k <= m

\* what the i-th call has to return, from the history alone
ExpectedChange(i) ==
    /\ EarlierFingerprinted(i) /= {}
    /\ calls[MaxOf(EarlierFingerprinted(i))].hash /= calls[i].hash

\* C1: in any interleaved sequence of detect_changes calls over several
\* endpoints, a call with a present fingerprint returns true iff it is not
\* the endpoint's first fingerprinted call and its fingerprint differs from
\* that of the endpoint's immediately preceding fingerprinted call; calls
\* for other endpoints do not influence the answer.
C1_ChangeIffDiffersFromPreceding ==
    \A i \in 1..Len(calls) :
        calls[i].hash /= None => (calls[i].ret <=> ExpectedChange(i))

\* an endpoint observed twice with differing fingerprints, a call for
\* another endpoint in between, the change reported on the second call only
C1_Witness ==
    /\ Len(calls) >= 3
    /\ \E i, j, k \in 1..Len(calls) :
        /\ i < j /\ j < k
        /\ calls[i].name = calls[k].name
        /\ calls[j].name /= calls[k].name
        /\ calls[i].hash /= None /\ calls[j].hash /= None
        /\ calls[k].hash /= None
        /\ calls[i].hash /= calls[k].hash
        /\ calls[j].hash = calls[k].hash
        /\ EarlierFingerprinted(i) = {}
        /\ ~calls[i].ret
        /\ calls[k].ret

\* a detect_changes call has just returned
DetectReturned == Len(calls') = Len(calls) + 1

\* C2: a single call detect_changes(name, h) with h present returns true
\* iff api_states already holds an entry for name and the stored last
\* fingerprint is different from h; otherwise it returns false.
C2_SingleCallContract ==
    [][DetectReturned /\ LastCall'.hash /= None =>
         (LastCall'.ret <=>
            /\ LastCall'.name \in DOMAIN api_states
            /\ api_states[LastCall'.name].last_hash /= LastCall'.hash)]_vars

\* the latest call found an entry with another fingerprint and returned true
C2_Witness ==
    /\ Len(calls) >= 2
    /\ LastCall.ret
    /\ calls[Len(calls) - 1].name = LastCall.name
    /\ calls[Len(calls) - 1].hash /= None

\* C3: after every detect_changes(name, h) call with h present, whatever it
\* returned, the stored last fingerprint of name equals h.
C3_StateIsLastObserved ==
    (calls /= << >> /\ LastCall.hash /= None) =>
        /\ LastCall.name \in DOMAIN api_states
        /\ api_states[LastCall.name].last_hash = LastCall.hash

\* all three outcomes have happened for one endpoint: first observation,
\* no change, change
C3_Witness ==
    \E i, j, k \in 1..Len(calls) :
        /\ i < j /\ j < k /\ k = Len(calls)
        /\ calls[i].name = calls[k].name /\ calls[j].name = calls[k].name
        /\ calls[i].hash /= None
        /\ calls[j].hash = calls[i].hash /\ ~calls[j].ret
        /\ calls[k].hash /= None /\ calls[k].ret
        /\ api_states[calls[k].name].last_hash = calls[k].hash

\* C4: detect_changes called with an absent fingerprint returns false and
\* leaves the whole fingerprint map unchanged.
C4_AbsentFingerprintNoMutation ==
    [][DetectReturned /\ LastCall'.hash = None =>
         ~LastCall'.ret /\ api_states' = api_states]_vars

\* an absent fingerprint was passed for an endpoint without an entry while
\* another endpoint has one: no entry was created
C4_Witness ==
    /\ calls /= << >>
    /\ LastCall.hash = None
    /\ ~LastCall.ret
    /\ LastCall.name \notin DOMAIN api_states
    /\ DOMAIN api_states /= {}

----------------------------------------------------------------------------
(* Properties of the pipeline and of the Alert Evaluator *)

\* analyze_result has returned for the Check Result in `result`
Processed == result /= None /\ pc \notin {"log", "analyze"}

\* check_api has just returned the Check Result in `result`
Probed == result /= None /\ pc = "log"

StoredHashIs(name, h) ==
    name \in DOMAIN api_states /\ api_states[name].last_hash = h

\* C5 as stated: after the pipeline has processed any Check Result that
\* carries a fingerprint, whatever its status, the endpoint's stored last
\* fingerprint exists and equals that result's fingerprint.
C5_Original ==
    (Processed /\ result[1].response_hash /= None) =>
        StoredHashIs(result[1].name, result[1].response_hash)

\* C5 amended: after the pipeline has processed a Check Result with status
\* `up` that carries a fingerprint, the endpoint's stored last fingerprint
\* exists and equals that result's fingerprint.
C5_StoredAfterUpResult ==
    (Processed /\ result[1].status = "up" /\ result[1].response_hash /= None) =>
        StoredHashIs(result[1].name, result[1].response_hash)

\* the pipeline has processed an `up` result with a fingerprint other than
\* the one of the endpoint's first probe, and the map holds the new one
C5_Witness ==
    /\ Processed
    /\ Len(probes) >= 2
    /\ result[1] = probes[Len(probes)]
    /\ result[1].status = "up"
    /\ result[1].response_hash /= None
    /\ \E j \in 1..(Len(probes) - 1) :
        /\ probes[j].name = result[1].name
        /\ probes[j].status = "up"
        /\ probes[j].response_hash /= None
        /\ probes[j].response_hash /= result[1].response_hash
    /\ StoredHashIs(result[1].name, result[1].response_hash)

LatencyTemplates ==
    {"{name} is VERY SLOW! Response time: {rt}ms",
     "{name} is slow. Response time: {rt}ms",
     "{name} is healthy. Response time: {rt}ms"}

ChangeTemplate == "{name} response structure has CHANGED!"

\* C6: a `down` result gives exactly one alert, `critical`; an `error`
\* result gives exactly one alert, `warning`; neither gives a latency-tier
\* alert or a structure-change alert, whatever response time or fingerprint
\* the result carries.
C6_DownErrorSingleAlert ==
    (Processed /\ result[1].status \in {"down", "error"}) =>
        /\ Len(alerts) = 1
        /\ alerts[1].name = result[1].name
        /\ alerts[1].template \notin LatencyTemplates \cup {ChangeTemplate}
        /\ result[1].status = "down" => alerts[1].level = "critical"
        /\ result[1].status = "error" => alerts[1].level = "warning"

\* a `down` result with a response time above the critical threshold and a
\* fingerprint other than the stored one has produced one critical alert
C6_Witness ==
    /\ Processed
    /\ result[1].status = "down"
    /\ result[1].response_time /= None
    /\ result[1].response_time[1] > Centi(response_time_critical)
    /\ result[1].response_hash /= None
    /\ result[1].name \in DOMAIN api_states
    /\ api_states[result[1].name].last_hash /= result[1].response_hash
    /\ Len(alerts) = 1
    /\ alerts[1].level = "critical"

\* the tier a response time belongs to, by first match
TierLevel(rt) ==
    IF rt > Centi(response_time_critical) THEN "critical"
    ELSE IF rt > Centi(response_time_warning) THEN "warning"
    ELSE "info"

LatencyIndexes == {i \in 1..Len(alerts) : alerts[i].template \in LatencyTemplates}

\* C7: for every `up` result and every response time value, analyze_result
\* emits exactly one latency-tier alert: critical above the critical
\* threshold, else warning above the warning threshold, else info.
C7_OneLatencyAlertPerUp ==
    (Processed /\ result[1].status = "up"
       /\ result[1].response_time /= None) =>
        /\ Cardinality(LatencyIndexes) = 1
        /\ \A i \in LatencyIndexes :
             /\ alerts[i].level = TierLevel(result[1].response_time[1])
             /\ alerts[i].response_time = result[1].response_time

\* the probe of the same endpoint before the one in flight, if any
EarlierProbes ==
    {j \in 1..(Len(probes) - 1) : probes[j].name = result[1].name}

DiffersFromPreviousProbe ==
    /\ result[1].response_hash /= None
    /\ EarlierProbes /= {}
    /\ probes[MaxOf(EarlierProbes)].response_hash /= None
    /\ probes[MaxOf(EarlierProbes)].response_hash /= result[1].response_hash

\* C8: an `up` result whose fingerprint differs from the one of the previous
\* probe of the endpoint gives exactly two alerts, the latency-tier alert
\* (info below the warning threshold) and then the warning that the
\* structure changed; an `up` result for which the Change Detector reports
\* no change gives only the latency-tier alert.
C8_UpResultAlerts ==
    [][(pc = "analyze" /\ pc' /= "analyze" /\ result[1].status = "up") =>
         /\ DiffersFromPreviousProbe =>
              /\ Len(alerts') = 2
              /\ alerts'[1].template \in LatencyTemplates
              /\ result[1].response_time[1] < Centi(response_time_warning)
                   => alerts'[1].level = "info"
              /\ alerts'[2].template = ChangeTemplate
              /\ alerts'[2].level = "warning"
         /\ ~detect_changes(api_states, result[1].name,
                            result[1].response_hash).ret =>
              /\ Len(alerts') = 1
              /\ alerts'[1].template \in LatencyTemplates]_vars

\* str(code) of the status codes in use
CodeText(code) ==
    CASE code = 200 -> <<"2", "0", "0">>
      [] code = 503 -> <<"5", "0", "3">>

\* C9: check_api maps every probe outcome to a status: expected code -> up;
\* other code -> error "Unexpected status code: {code}"; timeout -> down
\* "Request timeout"; connection failure -> down "Connection error"; any
\* other failure -> error with the failure's description; every outcome
\* yields a Check Result.
C9_OutcomeToStatus ==
    /\ Probed =>
        LET r == result[1]
            o == outcome[1]
        IN /\ (o.kind = "response"
                 /\ o.status_code = apis[idx].expected_status)
                => r.status = "up"
           /\ (o.kind = "response"
                 /\ o.status_code /= apis[idx].expected_status)
                => /\ r.status = "error"
                   /\ r.error = Some(<<"Unexpected status code: ">>
                                     \o CodeText(o.status_code))
           /\ o.kind = "timeout"
                => r.status = "down" /\ r.error = Some(<<"Request timeout">>)
           /\ o.kind = "connection"
                => r.status = "down" /\ r.error = Some(<<"Connection error">>)
           /\ o.kind = "other"
                => /\ r.status = "error"
                   /\ r.error = Some(IF o.description = "" THEN << >>
                                     ELSE <<o.description>>)
    /\ (running /\ pc = "check" /\ now < MaxProbes) =>
        \A o \in Outcomes :
            check_api(apis[idx], o, now + 1).status \in {"up", "down", "error"}

\* an endpoint that expects 503 has answered 503 and is `up`, after the
\* endpoint that expects 200 answered 503 and got the error message
C9_Witness ==
    /\ Probed
    /\ outcome[1].kind = "response"
    /\ outcome[1].status_code = 503
    /\ apis[idx].expected_status = 503
    /\ result[1].status = "up"
    /\ \E j \in 1..Len(probes) :
        /\ probes[j].status = "error"
        /\ probes[j].status_code = Some(503)
        /\ probes[j].error = Some(<<"Unexpected status code: ", "5", "0", "3">>)

\* C10: every Check Result of check_api has: down or error => the error
\* message is present and non-empty; up => response time and status code
\* present and error absent; fingerprint present only if shape tracking is
\* enabled and a response was received.
C10_ResultInvariant ==
    Probed =>
        LET r == result[1]
        IN /\ r.status \in {"down", "error"}
                => r.error /= None /\ r.error[1] /= << >>
                     /\ ~IsEmptyText(r.error[1])
           /\ r.status = "up"
                => /\ r.response_time /= None
                   /\ r.status_code /= None
                   /\ r.error = None
           /\ r.response_hash /= None
                => /\ apis[idx].check_response_structure
                   /\ outcome[1].kind = "response"

----------------------------------------------------------------------------
(* Properties of the Result Logger and of the monitoring loop *)

\* log_result has just returned for the Check Result in `result`
LogReturned == pc = "log" /\ pc' = "analyze"

ConfiguredNames == {apis[i].name : i \in DOMAIN apis}

\* C11: log_result(result) extends the target endpoint's log by exactly one
\* record at the end and changes nothing else: the records already in that
\* log keep content and position, and the logs of all other endpoints are
\* unchanged.
C11_LogResultFrame ==
    [][LogReturned =>
         /\ EndpointLog(logs', result[1].name)
              = Append(EndpointLog(logs, result[1].name), LogLine(result[1]))
         /\ \A n \in ConfiguredNames \ {result[1].name} :
              EndpointLog(logs', n) = EndpointLog(logs, n)]_vars

\* the Check Results of endpoint n among the lines of a log, in file order
NameIs(n, r) == r.name = n

RECURSIVE RecordsOf(_, _)
RecordsOf(n, lines) ==
    IF lines = << >> THEN << >>
    ELSE IF lines[1].kind = "json" /\ NameIs(n, lines[1].value)
         THEN <<lines[1].value>> \o RecordsOf(n, Tail(lines))
         ELSE RecordsOf(n, Tail(lines))

RECURSIVE ProbesOf(_, _)
\* the Check Results of endpoint n among the first k probes, in probe order
ProbesOf(n, k) ==
    IF k = 0 THEN << >>
    ELSE IF NameIs(n, probes[k]) THEN Append(ProbesOf(n, k - 1), probes[k])
         ELSE ProbesOf(n, k - 1)

\* number of probes whose log_result, resp. analyze_result, has returned
NumLogged == IF pc = "log" THEN Len(probes) - 1 ELSE Len(probes)

NumAnalyzed == IF pc \in {"log", "analyze"} THEN Len(probes) - 1 ELSE Len(probes)

RECURSIVE DetectedOf(_, _)
\* the fingerprints the pipeline hands to detect_changes for endpoint n
\* during the first k probes, in probe order
DetectedOf(n, k) ==
    IF k = 0 THEN << >>
    ELSE IF NameIs(n, probes[k]) /\ probes[k].status = "up"
              /\ probes[k].response_hash /= None
         THEN Append(DetectedOf(n, k - 1), probes[k].response_hash)
         ELSE DetectedOf(n, k - 1)

RECURSIVE CallsOf(_, _)
\* the fingerprints of the first k detect_changes calls for endpoint n
CallsOf(n, k) ==
    IF k = 0 THEN << >>
    ELSE IF calls[k].name = n THEN Append(CallsOf(n, k - 1), calls[k].hash)
         ELSE CallsOf(n, k - 1)

RECURSIVE TotalLines(_)
TotalLines(fs) ==
    IF fs = {} THEN 0
    ELSE LET f == CHOOSE x \in fs : TRUE
         IN Len(logs[f]) + TotalLines(fs \ {f})

\* C12: across run_checks cycles the Check Results of one endpoint reach its
\* log and the Change Detector in the order in which the endpoint was
\* probed; a cycle probes each configured endpoint exactly once, in
\* configuration order, and appends exactly one record per endpoint.
C12_OrderPreserved ==
    /\ \A n \in ConfiguredNames :
         /\ RecordsOf(n, EndpointLog(logs, n)) = ProbesOf(n, NumLogged)
         /\ CallsOf(n, Len(calls)) = DetectedOf(n, NumAnalyzed)
    /\ \A j \in 1..Len(probes) :
         probes[j].name = apis[((j - 1) % Len(apis)) + 1].name
    /\ \A j \in 1..Len(probes) : probes[j].timestamp = j
    /\ TotalLines(DOMAIN logs) = NumLogged
    /\ (pc = "sleep" /\ apis /= << >>) =>
         /\ Len(probes) % Len(apis) = 0
         /\ TotalLines(DOMAIN logs) = Len(probes)

\* a cycle is complete and the first endpoint has been probed, logged and
\* analyzed a second time, with another fingerprint than the first time
C12_Witness ==
    /\ Len(apis) = 2
    /\ Len(probes) = 3
    /\ pc = "check"
    /\ idx = 2
    /\ probes[1].response_hash /= None
    /\ probes[3].response_hash /= None
    /\ probes[1].response_hash /= probes[3].response_hash
    /\ Len(RecordsOf(apis[1].name, EndpointLog(logs, apis[1].name))) = 2
    /\ CallsOf(apis[1].name, Len(calls))
         = <<probes[1].response_hash, probes[3].response_hash>>

\* C13: each endpoint has its own persisted log: the records of two
\* configured endpoints with different names (differing only in letter
\* case, or in a space versus an underscore) are never written into the
\* same log file, so the log of an endpoint holds only its own records.
C13_OwnLogPerEndpoint ==
    /\ \A f \in DOMAIN logs : \A i, j \in DOMAIN logs[f] :
         logs[f][i].value.name = logs[f][j].value.name
    /\ \A n \in ConfiguredNames : \A i \in DOMAIN EndpointLog(logs, n) :
         EndpointLog(logs, n)[i].value.name = n

----------------------------------------------------------------------------
(* Properties of the Log Analyzer *)

ReadDone == reader.pc = "done"

\* lines whose write has begun, resp. is complete, in the file being read
ReadFile == EndpointLog(logs, reader.name)

\* the figure analyze_api reports for the list load_logs built
ReadTotal == calculate_uptime(reader.logs).total_checks

\* C14 as stated: a lock-free read concurrent with appends completes without
\* error, a partially written final line is skipped, no record is counted
\* that was not fully appended, and total_checks lies between the appends
\* completed before the read started and those started before it ended.
C14_Original ==
    ReadDone =>
        /\ ~reader.raised
        /\ ~calculate_uptime(reader.logs).raised
        /\ ~reader.partial_counted
        /\ reader.complete_at_start <= ReadTotal
        /\ ReadTotal <= Len(ReadFile)

\* C14 amended: the read completes without error; a partially written
\* final line is skipped unless what is written of it is already the whole
\* JSON text of the record (only the line end missing), and then the record
\* is counted; the records counted are, in the order of the file, records
\* whose whole JSON text is in the file, each counted once, those completed
\* before the read began among them; so total_checks lies between the
\* appends completed before the read started and the appends started
\* before it ended.
C14_ConcurrentRead ==
    ReadDone =>
        /\ ~reader.raised
        /\ ~calculate_uptime(reader.logs).raised
        /\ reader.complete_at_start <= ReadTotal
        /\ ReadTotal <= Len(ReadFile)
        /\ Len(reader.counted_lines) = Len(reader.logs)
        /\ \A i \in DOMAIN reader.logs :
             LET n == reader.counted_lines[i]
             IN /\ n \in DOMAIN ReadFile
                /\ ReadFile[n].kind = "json"
                /\ reader.logs[i] = [object |-> TRUE,
                                     fields |-> ReadFile[n].value]
                /\ \A j \in DOMAIN reader.logs :
                     i < j => n < reader.counted_lines[j]
        /\ \A n \in 1..reader.complete_at_start :
             \E i \in DOMAIN reader.logs : reader.counted_lines[i] = n
        /\ reader.partial_counted => ReadTotal > reader.complete_at_start

\* a read that began after one complete append has skipped the first part
\* of the line of a second append, which completed before the read ended
C14_Witness ==
    /\ ReadDone
    /\ reader.partial_skipped
    /\ reader.complete_at_start = 1
    /\ ReadTotal = 1
    /\ Cardinality(CompleteLines(ReadFile)) = 2

\* analyze_api has returned, resp. has returned after printing its report
AnalyzeDone == analyzer.pc = "done"

Reported == AnalyzeDone /\ analyzer.printed = "report"

\* the lines of the file analyze_api read
AnalyzedFile == EndpointLog(logs, analyzer.name)

NumStatus(entries, status) ==
    Cardinality({i \in DOMAIN entries :
                   entries[i].object /\ entries[i].fields.status = status})

\* C15: the reported uptime is 100 exactly when every record is `up` and 0
\* exactly when no record is `up`, also after rounding to 2 decimals.
C15_UptimeExtremes ==
    Reported =>
        LET up == NumStatus(analyzer.loaded, "up")
            stats == analyzer.uptime_stats[1]
        IN /\ stats.uptime = 10000 <=> up = Len(analyzer.loaded)
           /\ stats.uptime = 0 <=> up = 0

\* C16: for a non-empty record sequence the report has total_checks = the
\* number of records, up_count = the number of `up` records, down_count =
\* the number of `down` records (`error` records in neither count), and
\* uptime = the hundredth of a percent nearest to 100 * up_count /
\* total_checks.
C16_UptimeCounts ==
    Reported =>
        LET total == Len(analyzer.loaded)
            up == NumStatus(analyzer.loaded, "up")
            down == NumStatus(analyzer.loaded, "down")
            stats == analyzer.uptime_stats[1]
            diff == stats.uptime * total - up * 10000
        IN /\ total > 0
           /\ stats.total_checks = total
           /\ stats.up_count = up
           /\ stats.down_count = down
           /\ stats.up_count + stats.down_count <= stats.total_checks
           /\ 2 * diff <= total
           /\ 2 * diff >= 0 - total

\* 8 `up` and 2 `down` records give uptime 80.0, total 10, up 8, down 2
C16_Witness ==
    /\ Reported
    /\ AnalyzedFile = Scenario1Log
    /\ analyzer.uptime_stats
         = Some([uptime |-> 8000, total_checks |-> 10, up_count |-> 8,
                 down_count |-> 2])

\* a report over records among which `error` records are in neither count
C16_WitnessError ==
    /\ Reported
    /\ NumStatus(analyzer.loaded, "error") > 0
    /\ analyzer.uptime_stats[1].up_count + analyzer.uptime_stats[1].down_count
         < analyzer.uptime_stats[1].total_checks

ZeroStats == [uptime |-> 0, total_checks |-> 0, up_count |-> 0,
              down_count |-> 0]

\* C17 as stated: analyze on a missing or empty log returns the zero-valued
\* Report and raises no error.
C17_Original ==
    (AnalyzeDone /\ AnalyzedFile = << >>) =>
        /\ ~analyzer.raised
        /\ analyzer.printed = "report"
        /\ analyzer.uptime_stats = Some(ZeroStats)
        /\ analyzer.avg_response_time = Some(0)
        /\ analyzer.incidents = Some(<< >>)

\* C17 amended: analyze on a missing or empty log raises no error and
\* produces no Report: it loads no record, says that no logs were found and
\* returns; the three calculators give the zero values for what it loaded.
C17_NoLogsNoReport ==
    (AnalyzeDone /\ AnalyzedFile = << >>) =>
        /\ ~analyzer.raised
        /\ analyzer.printed = "no_logs"
        /\ analyzer.loaded = << >>
        /\ analyzer.uptime_stats = None
        /\ analyzer.avg_response_time = None
        /\ analyzer.incidents = None
        /\ calculate_uptime(analyzer.loaded)
             = [raised |-> FALSE] @@ ZeroStats
        /\ calculate_avg_response_time(analyzer.loaded)
             = [raised |-> FALSE, avg |-> 0]
        /\ get_incidents(analyzer.loaded)
             = [raised |-> FALSE, incidents |-> << >>]

\* analyze_api has returned for an endpoint without a log file
C17_Witness ==
    /\ AnalyzeDone
    /\ LogFileName(analyzer.name) \notin DOMAIN logs
    /\ analyzer.printed = "no_logs"

\* analyze_api has returned for an endpoint whose log file is empty
C17_WitnessEmpty ==
    /\ AnalyzeDone
    /\ LogFileName(analyzer.name) \in DOMAIN logs
    /\ AnalyzedFile = << >>
    /\ analyzer.printed = "no_logs"

IsRecordLine(line) == line.kind = "json"

\* the records of the valid record lines of a file, in file order
ValidRecords(lines) ==
    LET kept == SelectSeq(lines, IsRecordLine)
    IN [i \in DOMAIN kept |-> [object |-> TRUE, fields |-> kept[i].value]]

\* C18: with malformed lines anywhere among valid record lines the analysis
\* never aborts, load_logs returns exactly the valid records in their
\* order, and counts, average and incidents are those of the valid records.
C18_MalformedLinesSkipped ==
    AnalyzeDone =>
        LET valid == ValidRecords(AnalyzedFile)
        IN /\ ~analyzer.raised
           /\ analyzer.loaded = valid
           /\ valid /= << >> =>
                /\ analyzer.uptime_stats[1].total_checks = Len(valid)
                /\ analyzer.uptime_stats[1].up_count = NumStatus(valid, "up")
                /\ analyzer.uptime_stats[1].down_count
                     = NumStatus(valid, "down")
                /\ analyzer.avg_response_time
                     = Some(calculate_avg_response_time(valid).avg)
                /\ analyzer.incidents = Some(get_incidents(valid).incidents)

----------------------------------------------------------------------------
(* Properties of the monitoring loop and of what it leaves in the logs *)

\* analyze_result returns having emitted at least one alert
AlertEmitted == pc = "analyze" /\ pc' /= "analyze" /\ alerts' /= << >>

\* the Check Result in `result` is the last record of its endpoint's log
ResultLogged ==
    /\ result /= None
    /\ LET lines == EndpointLog(logs, result[1].name)
       IN lines /= << >> /\ lines[Len(lines)] = LogLine(result[1])

Interrupted == running /\ ~running'

\* every file keeps the lines it has, in their places
LinesKept ==
    \A f \in DOMAIN logs :
        /\ f \in DOMAIN logs'
        /\ Len(logs'[f]) >= Len(logs[f])
        /\ \A i \in DOMAIN logs[f] : logs'[f][i] = logs[f][i]

\* C19: in every execution of the monitoring loop, also one stopped by an
\* interrupt at any point, alerts are emitted for a Check Result only when
\* that result is already appended to its endpoint's log, and all of them
\* are about that result's endpoint; no step removes or alters records
\* already appended, and an interrupt leaves the logs as they are.
C19_AlertOnlyAfterLog ==
    [][/\ AlertEmitted =>
            /\ ResultLogged
            /\ \A i \in DOMAIN alerts' : alerts'[i].name = result[1].name
       /\ LinesKept
       /\ Interrupted => logs' = logs]_vars

\* alerts have been emitted for a result that is in the log
C19_Witness ==
    /\ Processed
    /\ alerts /= << >>
    /\ ResultLogged

\* an interrupt between log_result and analyze_result: the first result is
\* in the log and no alert has been emitted
C19_WitnessInterrupted ==
    /\ ~running
    /\ pc = "analyze"
    /\ Len(probes) = 1
    /\ ResultLogged
    /\ alerts = << >>

FinalStatuses == {"up", "down", "error"}

\* C20: the status `unknown` never leaves check_api: every Check Result
\* returned has status up, down or error, whatever the request did; so has
\* every record in the logs, and for every log the number of incidents is
\* total_checks minus up_count.
C20_StatusNeverUnknown ==
    /\ \A i \in DOMAIN probes : probes[i].status \in FinalStatuses
    /\ \A f \in DOMAIN logs : \A i \in DOMAIN logs[f] :
         /\ logs[f][i].kind = "json"
         /\ logs[f][i].value.status \in FinalStatuses
    /\ \A n \in ConfiguredNames :
         LET l == load_logs(logs, n)
             stats == calculate_uptime(l.logs)
             incidents == get_incidents(l.logs)
         IN /\ ~l.raised /\ ~stats.raised /\ ~incidents.raised
            /\ Len(incidents.incidents) = stats.total_checks - stats.up_count

\* a log holds an `up` record, a `down` record and an `error` record
C20_Witness ==
    \E n \in ConfiguredNames :
        LET l == load_logs(logs, n)
        IN /\ calculate_uptime(l.logs).up_count = 1
           /\ calculate_uptime(l.logs).down_count = 1
           /\ Len(get_incidents(l.logs).incidents) = 2

====
